---- MODULE Spec2Model ----
(***************************************************************************)
(* Model of service.py: the settings resolver (load_settings), the unit    *)
(* renderer (render_template), the systemd lifecycle operations (install,  *)
(* uninstall, start, stop) and the command runner (run, do), acting on the *)
(* externally persisted state: unit files, the static-asset target         *)
(* directory and the supervisor's registry.                                *)
(***************************************************************************)
EXTENDS Integers, Sequences, FiniteSets, TLC

(***************************************************************************)
(* Python values.  A YAML document is a tree of tagged values: a string is *)
(* a sequence of pieces (literal text, a blank " ", or a "{name}"          *)
(* placeholder), a mapping is a function from keys to values.              *)
(***************************************************************************)
Str(s) == [t |-> "str", v |-> s]
Map(m) == [t |-> "map", v |-> m]
Null == [t |-> "null", v |-> <<>>]
EmptyMap == Map(<<>>)
NoFile == [t |-> "nofile", v |-> <<>>]

\* Python truthiness of a value (None, '' and {} are falsy).
Truthy(obj) == obj.t \in {"str", "map"} /\ obj.v # <<>>

\* k in obj: the key test of a mapping, and the substring test of a string,
\* which holds here when k is one of the pieces of the string.
HasKey(obj, k) ==
    \/ obj.t = "map" /\ k \in DOMAIN obj.v
    \/ obj.t = "str" /\ \E i \in DOMAIN obj.v : obj.v[i] = k

\* dict.get(k, default)
Get(obj, k, default) == IF k \in DOMAIN obj.v THEN obj.v[k] ELSE default

\* The result of a call: a returned value, or a raised exception.
Raise(exc) == [t |-> "raise", v |-> exc]
IsRaise(obj) == obj.t = "raise"

\* Module constants of service.py.
HERE == "/opt/example"
LOGGING_DIR == "/var/log/example"
\* sys.executable and the directory it lives in.
PYTHON_CMD == "/opt/venv/bin/python"
PYTHON_DIR == "/opt/venv/bin"

\* str.format(service=service, config=config) on one piece of a string.
FormatPiece(piece, service, config) ==
    CASE piece = "{service}" -> service
      [] piece = "{config}" -> config
      [] OTHER -> piece

\* The placeholders str.format cannot resolve: it raises KeyError on them.
UnknownPlaceholders == {"{bogus}"}

\* obj.format(service=service, config=config)
Format(s, service, config) ==
    IF \E i \in DOMAIN s : s[i] \in UnknownPlaceholders
    THEN Raise("KeyError")
    ELSE Str([i \in DOMAIN s |-> FormatPiece(s[i], service, config)])

RECURSIVE deep_format(_, _, _)
deep_format(obj, service, config) ==
    CASE obj.t = "map" ->
           LET sub == [k \in DOMAIN obj.v |-> deep_format(obj.v[k], service, config)]
           IN  IF \E k \in DOMAIN sub : IsRaise(sub[k])
               THEN Raise("KeyError")
               ELSE Map(sub)
      [] obj.t = "str" -> Format(obj.v, service, config)
      [] OTHER -> obj

\* dict.update(other): the keys of other replace same-named keys of base.
Update(base, other) ==
    [k \in DOMAIN base \cup DOMAIN other |->
        IF k \in DOMAIN other THEN other[k] ELSE base[k]]

\* settings[...] = ... for the five injected keys (lines 45-49).
Injected(service, config) ==
    [k \in {"SERVICE", "CONFIG", "HOME", "PYTHON_CMD", "LOGGING_DIR"} |->
        CASE k = "SERVICE" -> Str(<<service>>)
          [] k = "CONFIG" -> Str(<<config>>)
          [] k = "HOME" -> Str(<<HERE>>)
          [] k = "PYTHON_CMD" -> Str(<<PYTHON_CMD>>)
          [] OTHER -> Str(<<LOGGING_DIR>>)]

\* str(k) as format() takes it of a key.  A YAML key is a string or a
\* scalar of another type: the integer 1 is written "1:int" here, and its
\* text is that of the string key '1'.
KeyStr(k) == IF k = "1:int" THEN "1" ELSE k

\* '{}_{}'.format(env_prefix, k): the text of the prefix, "_" and the key.
PrefixedKey(env_prefix, k) == env_prefix \o <<"_", KeyStr(k)>>

\* The text of a key as one string of the model's key universe.
KeyText ==
    [p \in {<<"EX", "_", "A">>, <<"EX", "_", "B">>, <<"EX", "_", "C">>,
            <<"EX", "_", "1">>, <<"EX", "_", "EX_A">>} |->
        CASE p = <<"EX", "_", "A">> -> "EX_A"
          [] p = <<"EX", "_", "B">> -> "EX_B"
          [] p = <<"EX", "_", "C">> -> "EX_C"
          [] p = <<"EX", "_", "1">> -> "EX_1"
          [] OTHER -> "EX_EX_A"]

\* The order in which a document lists the keys of a mapping, which is the
\* order items() yields them in.
KeyOrder == <<"1:int", "1", "A", "B", "C", "EX_A">>
KeyRank(k) == CHOOSE i \in DOMAIN KeyOrder : KeyOrder[i] = k

\* {'{}_{}'.format(env_prefix, k): v for k, v in settings['env'].items()}
\* When two keys have the same prefixed text the later item replaces the
\* earlier one.
PrefixEnv(env_prefix, env) ==
    LET newkeys == {KeyText[PrefixedKey(env_prefix, k)] : k \in DOMAIN env}
        from(nk) == {k \in DOMAIN env : KeyText[PrefixedKey(env_prefix, k)] = nk}
    IN  [nk \in newkeys |->
            env[CHOOSE k \in from(nk) : \A j \in from(nk) : KeyRank(j) <= KeyRank(k)]]

\* Lines 51-54 of load_settings, on the merged and injected settings.
ApplyEnvPrefix(descriptor, settings) ==
    LET env_prefix == Get(descriptor, "env_prefix", Null)
    IN  IF ~Truthy(env_prefix) THEN Map(settings)
        ELSE IF "env" \notin DOMAIN settings THEN Raise("KeyError")
        ELSE IF settings["env"].t # "map" THEN Raise("AttributeError")
        ELSE Map(Update(settings,
                 [k \in {"env"} |-> Map(PrefixEnv(env_prefix.v, settings["env"].v))]))

\* MergeSettings with the five keys injected before the config section is
\* overlaid, so that the section's values win.
MergeSettingsInjectFirst(descriptor, service, config) ==
    LET settings_common == Get(descriptor, "common", EmptyMap)
        formatted == deep_format(settings_common, service, config)
        configs == descriptor.v["configs"]
        section == configs.v[config]
    IN  IF IsRaise(formatted) THEN formatted
        ELSE IF formatted.t # "map" THEN Raise("AttributeError")
        ELSE IF configs.t # "map" THEN Raise("TypeError")
        ELSE IF Truthy(section) /\ section.t # "map" THEN Raise("ValueError")
        ELSE Map(Update(Update(formatted.v, Injected(service, config)),
                        IF Truthy(section) THEN section.v ELSE <<>>))

\* Lines 42-49: format common, overlay the config section, inject the keys.
MergeSettings(descriptor, service, config) ==
    LET settings_common == Get(descriptor, "common", EmptyMap)
        formatted == deep_format(settings_common, service, config)
        configs == descriptor.v["configs"]
        section == configs.v[config]
    IN  IF IsRaise(formatted) THEN formatted
        ELSE IF formatted.t # "map" THEN Raise("AttributeError")
        ELSE IF configs.t # "map" THEN Raise("TypeError")
        ELSE IF Truthy(section) /\ section.t # "map" THEN Raise("ValueError")
        ELSE Map(Update(Update(formatted.v, IF Truthy(section) THEN section.v ELSE <<>>),
                        Injected(service, config)))

\* The outcome of load_settings: (settings, None), (None, error), or an
\* exception that leaves the function.  The None in the first position is
\* the value Null; the None in the second is the text "None".
None == "None"
Returned(settings, error) == [t |-> "return", settings |-> settings, error |-> error]
Raised(exc) == [t |-> "raise", settings |-> Null, error |-> exc]

\* load_settings without the check of line 32: the lookup of the config
\* section at line 44 then raises KeyError.
load_settings_unchecked(service, config, descriptor) ==
    IF descriptor = NoFile
    THEN Returned(Null, "Failed to load descriptor")
    ELSE IF ~Truthy(descriptor) \/ ~HasKey(descriptor, "configs")
    THEN Returned(Null, "Service descriptor invalid or empty")
    ELSE IF descriptor.t # "map" \/ descriptor.v["configs"].t \notin {"map", "str"}
    THEN Raised("TypeError")
    ELSE IF ~HasKey(descriptor.v["configs"], config)
    THEN Raised("KeyError")
    ELSE LET merged == MergeSettings(descriptor, service, config)
             settings == IF IsRaise(merged) THEN merged
                         ELSE ApplyEnvPrefix(descriptor, merged.v)
         IN  IF IsRaise(settings)
             THEN Raised(settings.v)
             ELSE Returned(settings, None)

load_settings(service, config, descriptor) ==
    IF descriptor = NoFile
    THEN Returned(Null, "Failed to load descriptor")
    ELSE IF ~Truthy(descriptor) \/ ~HasKey(descriptor, "configs")
    THEN Returned(Null, "Service descriptor invalid or empty")
    ELSE IF descriptor.t # "map" \/ descriptor.v["configs"].t \notin {"map", "str"}
    THEN Raised("TypeError")
    ELSE IF ~HasKey(descriptor.v["configs"], config)
    THEN Returned(Null, "Config definition not found")
    ELSE LET merged == MergeSettings(descriptor, service, config)
             settings == IF IsRaise(merged) THEN merged
                         ELSE ApplyEnvPrefix(descriptor, merged.v)
         IN  IF IsRaise(settings)
             THEN Raised(settings.v)
             ELSE Returned(settings, None)

(***************************************************************************)
(* Inputs: the command-line arguments and the descriptor documents that    *)
(* services/<service>.yaml may hold.                                       *)
(***************************************************************************)
Services == {"webapp", "taskworker", "misc"}
Configs == {"prod", "dev"}
Actions == {"migrate", "shell", "unknown"}

\* A small function written as a set of <<key, value>> pairs.
Dict(pairs) == [k \in {pr[1] : pr \in pairs} |->
                   (CHOOSE pr \in pairs : pr[1] = k)[2]]

\* common sections: the scenario of the specification, a full section that
\* also names injected keys, one with a placeholder format() rejects, and
\* one that names the target directory only.
CommonScenario == Map(Dict({<<"x", Str(<<"{service}", "-", "{config}">>)>>}))
CommonFull ==
    Map(Dict({<<"SERVICE", Str(<<"evil">>)>>,
              <<"LOGGING_DIR", Str(<<"evil">>)>>,
              <<"user", Str(<<"www">>)>>,
              <<"targetroot", Str(<<"/srv/www/", "{service}">>)>>,
              <<"run", Str(<<"gunicorn", " ", "{service}", ".wsgi">>)>>,
              <<"actions", Map(Dict({<<"migrate", Str(<<"manage.py", " ", "migrate">>)>>,
                                     <<"shell", Str(<<>>)>>}))>>,
              <<"env", Map(Dict({<<"A", Str(<<"{config}">>)>>,
                                 <<"B", Str(<<"1">>)>>}))>>}))
CommonBad == Map(Dict({<<"x", Str(<<"{bogus}">>)>>}))
CommonStatic == Map(Dict({<<"targetroot", Str(<<"/srv/www/", "{service}">>)>>}))

\* configs entries.
SectionOverride ==
    Map(Dict({<<"HOME", Str(<<"evil">>)>>,
              <<"CONFIG", Str(<<"evil">>)>>,
              <<"PYTHON_CMD", Str(<<"evil">>)>>,
              <<"run", Str(<<"worker.py", " ", "{config}">>)>>,
              <<"env", Map(Dict({<<"C", Str(<<"{service}">>)>>}))>>}))
\* A section whose env has the integer key 1 and the string key '1'.
SectionNumeric ==
    Map(Dict({<<"env", Map(Dict({<<"1:int", Str(<<"a">>)>>,
                                 <<"1", Str(<<"b">>)>>}))>>}))

\* A document with the given entries; NoFile stands for a missing entry.
Document(common, configs, env_prefix) ==
    Map(Update(Update(IF common = NoFile THEN <<>> ELSE Dict({<<"common", common>>}),
                      IF configs = NoFile THEN <<>> ELSE Dict({<<"configs", configs>>})),
               IF env_prefix = NoFile THEN <<>> ELSE Dict({<<"env_prefix", env_prefix>>})))

OnlyProd(section) == Map(Dict({<<"prod", section>>}))

\* The missing or unparsable file, the empty documents, a document that is
\* a string, documents whose configs entry is a string, missing, null or
\* empty, and documents that define the
\* config prod over each kind of common section, with and without env_prefix.
Descriptors ==
    {NoFile, Null, EmptyMap, Str(<<"configs">>),
     Document(CommonScenario, Str(<<"prod">>), NoFile),
     Document(CommonScenario, NoFile, NoFile),
     Document(CommonFull, Null, NoFile),
     Document(CommonFull, EmptyMap, NoFile),
     Document(Null, OnlyProd(EmptyMap), NoFile),
     Document(CommonBad, OnlyProd(EmptyMap), NoFile),
     Document(NoFile, OnlyProd(Null), NoFile),
     Document(NoFile, OnlyProd(SectionOverride), NoFile),
     Document(CommonScenario, OnlyProd(EmptyMap), NoFile),
     Document(CommonScenario, OnlyProd(EmptyMap), Str(<<"EX">>)),
     Document(CommonScenario, OnlyProd(SectionNumeric), Str(<<"EX">>)),
     Document(CommonStatic, OnlyProd(EmptyMap), NoFile),
     Document(CommonFull, OnlyProd(Null), NoFile),
     Document(CommonFull, OnlyProd(EmptyMap), Str(<<>>)),
     Document(CommonFull, OnlyProd(EmptyMap), Str(<<"EX">>)),
     Document(CommonFull, OnlyProd(SectionOverride), NoFile),
     Document(CommonFull, OnlyProd(SectionOverride), Str(<<"EX">>))}

(***************************************************************************)
(* Unit names, unit files and the unit renderer.                           *)
(***************************************************************************)
derive_systemd_name(service, config) == <<"example", service, config, "service">>

systemd_service_path(service_name) == <<"/etc/systemd/system">> \o service_name

UnitNames == {derive_systemd_name(s, c) : s \in Services, c \in Configs}

\* A path that holds no file, and a file whose write broke off.
NoText == [t |-> "absent", v |-> <<>>]
Truncated == [t |-> "truncated", v |-> <<>>]

\* A file that open(path, 'w') has created or emptied.
Emptied == Str(<<>>)

\* The text of a value substituted into a string.
TextOf(obj) == IF obj.t = "str" THEN obj.v ELSE <<"<", obj.t, ">">>

RECURSIVE Concat(_)
Concat(segments) ==
    IF segments = <<>> THEN <<>> ELSE Head(segments) \o Concat(Tail(segments))

\* The variable each template reference names.
TemplateRefs ==
    Dict({<<"{{GUNICORN_CMD}}", "GUNICORN_CMD">>,
          <<"{{GUNICORN_CONFIG_PATH}}", "GUNICORN_CONFIG_PATH">>,
          <<"{{CELERY_CMD}}", "CELERY_CMD">>,
          <<"{{SERVICE}}", "SERVICE">>,
          <<"{{user}}", "user">>})

GUNICORN_TEMPLATE == <<"services", "templates", "systemd.gunicorn.service">>
CELERY_TEMPLATE == <<"services", "templates", "systemd.celery.service">>

\* The template files the loader may find under HERE: for each path, a text
\* that references only injected and derived keys, and one that also
\* references a key only the descriptor can supply.
TemplateFiles(localpath) ==
    IF localpath = GUNICORN_TEMPLATE
    THEN {<<"ExecStart=", "{{GUNICORN_CMD}}", " -c ", "{{GUNICORN_CONFIG_PATH}}">>,
          <<"User=", "{{user}}", " ExecStart=", "{{GUNICORN_CMD}}">>}
    ELSE {<<"ExecStart=", "{{CELERY_CMD}}", " -A ", "{{SERVICE}}">>,
          <<"User=", "{{user}}", " ExecStart=", "{{CELERY_CMD}}">>}

\* template.render(context) under jinja2.StrictUndefined: a reference to a
\* variable the context lacks raises UndefinedError.
render_template(template, context) ==
    IF \E i \in DOMAIN template :
          template[i] \in DOMAIN TemplateRefs /\ TemplateRefs[template[i]] \notin DOMAIN context
    THEN Raise("UndefinedError")
    ELSE Str(Concat([i \in DOMAIN template |->
                 IF template[i] \in DOMAIN TemplateRefs
                 THEN TextOf(context[TemplateRefs[template[i]]])
                 ELSE <<template[i]>>]))

\* len() of the pieces a unit text is made of.
Chars ==
    Dict({<<"ExecStart=", 10>>, <<" ExecStart=", 11>>, <<"User=", 5>>,
          <<" -c ", 4>>, <<" -A ", 4>>, <<"/", 1>>,
          <<PYTHON_DIR, 13>>, <<HERE, 12>>,
          <<"gunicorn", 8>>, <<"celery", 6>>,
          <<"services", 8>>, <<"gunicorn_config.py", 18>>,
          <<"webapp", 6>>, <<"taskworker", 10>>, <<"misc", 4>>,
          <<"www", 3>>, <<"evil", 4>>})

\* The mark between a text written over the start of a longer file and the
\* text of that file, of which the part beyond the written text remains.
Beyond == "...beyond which remains the rest of: "

\* The length of a file's content.
RECURSIVE TextLen(_)
TextLen(s) ==
    IF s = <<>> THEN 0
    ELSE IF \E i \in DOMAIN s : s[i] = Beyond
    THEN LET first == CHOOSE i \in DOMAIN s :
                          s[i] = Beyond /\ \A j \in 1 .. (i - 1) : s[j] # Beyond
         IN  TextLen(SubSeq(s, first + 1, Len(s)))
    ELSE Chars[Head(s)] + TextLen(Tail(s))

\* A text written from offset 0 over a file with longer content.
Overlay(text, content) == [t |-> "overlay", v |-> text \o <<Beyond>> \o content]

\* What a file holds after a process that opened it for writing has written
\* its text from offset 0 and closed it: the text, followed by what another
\* writer has put beyond its end since the file was opened.  How much a
\* broken write of another process left is not known.
Written(text, current) ==
    IF current.t = "truncated"
    THEN {Str(text), Overlay(text, <<"<truncated>">>)}
    ELSE IF TextLen(current.v) > TextLen(text)
    THEN {Overlay(text, current.v)}
    ELSE {Str(text)}

(***************************************************************************)
(* The command runner's pure part.                                         *)
(***************************************************************************)
\* str.split(): the words between blanks, each word a sequence of pieces.
RECURSIVE Split(_)
Split(s) ==
    IF s = <<>> THEN <<>>
    ELSE IF Head(s) = " " THEN Split(Tail(s))
    ELSE LET rest == Split(Tail(s))
         IN  IF Len(s) > 1 /\ s[2] # " "
             THEN <<(<<Head(s)>> \o Head(rest))>> \o Tail(rest)
             ELSE <<(<<Head(s)>>)>> \o rest

\* ' '.join(args) for a list of words.
RECURSIVE Join(_)
Join(words) ==
    IF words = <<>> THEN <<>>
    ELSE IF Len(words) = 1 THEN Head(words)
    ELSE Head(words) \o <<" ">> \o Join(Tail(words))

\* The pieces whose text ends in '.py'.
PyPieces == {"manage.py", "worker.py"}

\* first_arg.endswith('.py')
EndsWithPy(word) == word[Len(word)] \in PyPieces

\* os.path.join(pythondir, first_arg)
PossibleExecutable(first_arg) == <<PYTHON_DIR, "/">> \o first_arg

\* guess_and_fix_command, with the set of files that exist next to the
\* interpreter.
guess_and_fix_command(cmdline, bindir) ==
    LET args == Split(cmdline)
    IN  IF args = <<>> THEN Raise("IndexError")
        ELSE IF EndsWithPy(args[1])
        THEN Str(<<PYTHON_CMD, " ">> \o Join(args))
        ELSE IF PossibleExecutable(args[1]) \in bindir
        THEN Str(PossibleExecutable(args[1]) \o <<" ">> \o Join(Tail(args)))
        ELSE Str(cmdline)

\* The directories next to the interpreter that an invocation may find.
BinDirs == {{}, {PossibleExecutable(<<"gunicorn">>)}}

\* str(v)
PyStr(obj) == Str(TextOf(IF obj.t = "null" THEN Str(<<"None">>) ELSE obj))

\* os.environ of the invocation.
OS_ENVIRON == Dict({<<"PATH", Str(<<"/usr/bin">>)>>, <<"B", Str(<<"inherited">>)>>})

\* job_env = os.environ.copy(); job_env.update({k: str(v) ...})
JobEnv(settings) ==
    IF "env" \notin DOMAIN settings THEN Raise("KeyError")
    ELSE IF settings["env"].t # "map" THEN Raise("AttributeError")
    ELSE Map(Update(OS_ENVIRON,
                    [k \in DOMAIN settings["env"].v |-> PyStr(settings["env"].v[k])]))

(***************************************************************************)
(* State.  The external state is what the invocations persist: the unit    *)
(* files, the static-asset target directory and the supervisor's registry  *)
(* (the unit index it read at its last reload, the enabled units and the   *)
(* running units).  proc holds each invocation in progress; last holds the *)
(* summary of the invocation that finished most recently; invocations      *)
(* counts the invocations begun.                                           *)
(***************************************************************************)
VARIABLES files, targetDir, loaded, enabled, running, proc, last, invocations

vars == <<files, targetDir, loaded, enabled, running, proc, last, invocations>>

\* Bounds of the model.
MaxInvocations == 3
MaxExit == 2
MaxArgs == 1
MaxConcurrent == 2

Procs == {1, 2}
ExitCodes == 0 .. MaxExit
ArgLists == {a \in {<<>>, << <<"--noinput">> >>, << <<"--noinput">>, <<"-v">> >>,
                    << <<"--noinput">>, <<"-v">>, <<"2">> >>} : Len(a) <= MaxArgs}

NotExited == -1

\* The descriptor of an invocation that has not read one.
Unread == [t |-> "unread", v |-> <<>>]

External == [files |-> files, targetDir |-> targetDir, loaded |-> loaded,
             enabled |-> enabled, running |-> running]

NoSnapshot == [files |-> [u \in UnitNames |-> NoText], targetDir |-> "absent",
               loaded |-> {}, enabled |-> {}, running |-> {}]

Idle == [pc |-> "idle", op |-> "", service |-> "", config |-> "", action |-> "",
         args |-> <<>>, launch |-> TRUE, descriptor |-> Unread, settings |-> Null, service_def |-> NoText,
         argv |-> <<>>, trace |-> <<>>, rc |-> NotExited, exit |-> NotExited,
         error |-> None, raised |-> FALSE, pre |-> NoSnapshot, alone |-> TRUE,
         detached |-> FALSE]

Registry == [loaded |-> loaded, enabled |-> enabled, running |-> running]

NoRegistry == [loaded |-> {}, enabled |-> {}, running |-> {}]

NoLast == [op |-> "", service |-> "", config |-> "", absent |-> FALSE,
           registry |-> NoRegistry]

Init ==
    /\ files = [u \in UnitNames |-> NoText]
    /\ targetDir = "absent"
    /\ loaded = {}
    /\ enabled = {}
    /\ running = {}
    /\ proc = [p \in Procs |-> Idle]
    /\ last = NoLast
    /\ invocations = 0

\* The unit an invocation works on.
UnitOf(me) == derive_systemd_name(me.service, me.config)

Exists(u) == files[u] # NoText

\* sys.exit(code) after print_error(error), or the normal end of a command.
Exit(me, code, error) == [me EXCEPT !.pc = "done", !.exit = code, !.error = error]

\* An exception no handler catches: traceback, exit status 1.
Crash(me, exc) == [me EXCEPT !.pc = "done", !.exit = 1, !.error = exc, !.raised = TRUE]

\* One more external call made by the invocation, and whether it succeeded.
Did(me, call, ok) == [me EXCEPT !.trace = Append(@, [call |-> call, ok |-> ok])]

Goto(me, label) == [me EXCEPT !.pc = label]

ExternalUnchanged == UNCHANGED <<files, targetDir, loaded, enabled, running>>

FirstLabel(op) ==
    CASE op = "install" -> "install.load"
      [] op = "uninstall" -> "uninstall.exists"
      [] op = "start" -> "start.restart"
      [] op = "stop" -> "stop.stop"
      [] op = "run" -> "run.load"
      [] OTHER -> "do.load"

\* No other invocation is in progress: each of the other processes has not
\* begun or has ended.
Alone(p) == \A q \in Procs \ {p} : proc[q].pc \in {"idle", "done"}

\* The command line is parsed and the command function entered.  launch
\* tells whether this invocation's PATH lets it execute systemctl.
Begin(p) ==
    /\ proc[p].pc = "idle"
    /\ invocations < MaxInvocations
    /\ invocations' = invocations + 1
    /\ \E op \in {"install", "uninstall", "start", "stop", "run", "do"},
          service \in Services, config \in Configs, launch \in BOOLEAN,
          action \in Actions, args \in ArgLists :
          /\ op # "do" => action = "migrate" /\ args = <<>>
          /\ op \in {"run", "do"} => launch
          /\ proc' = [proc EXCEPT ![p] =
                 [Idle EXCEPT !.pc = FirstLabel(op), !.op = op, !.service = service,
                              !.config = config, !.launch = launch,
                              !.action = IF op = "do" THEN action ELSE "",
                              !.args = args, !.pre = External,
                              !.alone = Alone(p)]]
    /\ ExternalUnchanged
    /\ UNCHANGED last

\* The unit two operators work on at the same time.
SharedService == "taskworker"
SharedConfig == "prod"

\* Begin for an install or an uninstall of the shared unit, by an operator
\* who can execute systemctl.
BeginLifecycle(p) ==
    /\ proc[p].pc = "idle"
    /\ invocations < MaxConcurrent
    /\ invocations' = invocations + 1
    /\ \E op \in {"install", "uninstall"} :
          proc' = [proc EXCEPT ![p] =
              [Idle EXCEPT !.pc = FirstLabel(op), !.op = op, !.service = SharedService,
                           !.config = SharedConfig, !.pre = External,
                           !.alone = Alone(p)]]
    /\ ExternalUnchanged
    /\ UNCHANGED last

\* The unit is Absent: no unit file, not enabled, not running.
Absent(ext, u) == ext.files[u] = NoText /\ u \notin ext.enabled /\ u \notin ext.running

\* The process exits.  A successful install or uninstall is remembered as
\* the most recent invocation, an install with the registry it started from.
Finish(p) ==
    LET me == proc[p] IN
    /\ me.pc = "done"
    /\ last' = IF me.exit = 0 /\ me.op \in {"install", "uninstall"}
               THEN [op |-> me.op, service |-> me.service, config |-> me.config,
                     absent |-> Absent(me.pre, UnitOf(me)),
                     registry |-> IF me.op = "install"
                                  THEN [loaded |-> me.pre.loaded,
                                        enabled |-> me.pre.enabled,
                                        running |-> me.pre.running]
                                  ELSE NoRegistry]
               ELSE NoLast
    /\ proc' = [proc EXCEPT ![p] = Idle]
    /\ ExternalUnchanged
    /\ UNCHANGED invocations

(***************************************************************************)
(* uninstall: systemd_uninstall, one step per external call.               *)
(***************************************************************************)
\* os.path.exists(systemd_path)
UninstallExists(p) ==
    LET me == proc[p] IN
    /\ me.pc = "uninstall.exists"
    /\ proc' = [proc EXCEPT ![p] =
           IF Exists(UnitOf(me)) THEN Goto(me, "uninstall.stop") ELSE Exit(me, 0, None)]
    /\ ExternalUnchanged
    /\ UNCHANGED <<last, invocations>>

\* subprocess.run('systemctl stop ...', check=True).  When systemctl cannot
\* be executed subprocess raises FileNotFoundError, which the handler at
\* line 94 turns into (None, None).
UninstallStop(p) ==
    LET me == proc[p] IN
    /\ me.pc = "uninstall.stop"
    /\ \/ /\ ~me.launch
          /\ proc' = [proc EXCEPT ![p] = Exit(me, 0, None)]
          /\ UNCHANGED running
       \/ /\ me.launch
          /\ running' = running \ {UnitOf(me)}
          /\ proc' = [proc EXCEPT ![p] = Goto(Did(me, "stop", TRUE), "uninstall.disable")]
       \/ /\ me.launch
          /\ proc' = [proc EXCEPT ![p] = Exit(Did(me, "stop", FALSE), 1, "Failed to uninstall")]
          /\ UNCHANGED running
    /\ UNCHANGED <<files, targetDir, loaded, enabled, last, invocations>>

\* UninstallDisable with the disable command left out: the unit is stopped
\* and its file removed while it stays enabled.
UninstallDisableLeftOut(p) ==
    LET me == proc[p] IN
    /\ me.pc = "uninstall.disable"
    /\ proc' = [proc EXCEPT ![p] = Goto(me, "uninstall.remove")]
    /\ UNCHANGED <<files, targetDir, loaded, enabled, running, last, invocations>>

\* subprocess.run('systemctl disable ...', check=True)
UninstallDisable(p) ==
    LET me == proc[p] IN
    /\ me.pc = "uninstall.disable"
    /\ \/ /\ enabled' = enabled \ {UnitOf(me)}
          /\ proc' = [proc EXCEPT ![p] = Goto(Did(me, "disable", TRUE), "uninstall.remove")]
       \/ /\ proc' = [proc EXCEPT ![p] = Exit(Did(me, "disable", FALSE), 1, "Failed to uninstall")]
          /\ UNCHANGED enabled
    /\ UNCHANGED <<files, targetDir, loaded, running, last, invocations>>

\* The processes of which p is one, or that hold the unit file u open for
\* writing: os.remove takes the name from the file they write to.
Detach(p, u, mine) ==
    [q \in Procs |->
        IF q = p THEN mine
        ELSE IF proc[q].pc = "install.copy" /\ UnitOf(proc[q]) = u
        THEN [proc[q] EXCEPT !.detached = TRUE]
        ELSE proc[q]]

\* os.remove(systemd_path): FileNotFoundError when the file is gone already,
\* another OSError when the removal is refused.
UninstallRemove(p) ==
    LET me == proc[p] IN
    /\ me.pc = "uninstall.remove"
    /\ \/ /\ Exists(UnitOf(me))
          /\ files' = [files EXCEPT ![UnitOf(me)] = NoText]
          /\ proc' = Detach(p, UnitOf(me), Exit(Did(me, "remove", TRUE), 0, None))
       \/ /\ Exists(UnitOf(me))
          /\ proc' = [proc EXCEPT ![p] = Exit(Did(me, "remove", FALSE), 1, "Failed to uninstall")]
          /\ UNCHANGED files
       \/ /\ ~Exists(UnitOf(me))
          /\ proc' = [proc EXCEPT ![p] = Exit(Did(me, "remove", FALSE), 0, None)]
          /\ UNCHANGED files
    /\ UNCHANGED <<targetDir, loaded, enabled, running, last, invocations>>

(***************************************************************************)
(* start and stop: systemd_start, systemd_stop.                            *)
(***************************************************************************)
\* The supervisor can activate a unit it has in its index or finds on disk.
CanActivate(u) == u \in loaded \/ Exists(u)

\* StartRestart without the check of job.returncode at line 105.
StartRestartUnchecked(p) ==
    LET me == proc[p] IN
    /\ me.pc = "start.restart"
    /\ \/ /\ ~me.launch
          /\ proc' = [proc EXCEPT ![p] = Crash(me, "FileNotFoundError")]
          /\ UNCHANGED running
       \/ /\ me.launch
          /\ CanActivate(UnitOf(me))
          /\ running' = running \cup {UnitOf(me)}
          /\ proc' = [proc EXCEPT ![p] = Goto(Did(me, "restart", TRUE), "start.sleep")]
       \/ /\ me.launch
          /\ running' \in {running, running \ {UnitOf(me)}}
          /\ proc' = [proc EXCEPT ![p] = Goto(Did(me, "restart", FALSE), "start.sleep")]
    /\ UNCHANGED <<files, targetDir, loaded, enabled, last, invocations>>

\* subprocess.run('systemctl restart ...'): no check, no handler.  A failed
\* restart may have taken the old process down or left it alone.
StartRestart(p) ==
    LET me == proc[p] IN
    /\ me.pc = "start.restart"
    /\ \/ /\ ~me.launch
          /\ proc' = [proc EXCEPT ![p] = Crash(me, "FileNotFoundError")]
          /\ UNCHANGED running
       \/ /\ me.launch
          /\ CanActivate(UnitOf(me))
          /\ running' = running \cup {UnitOf(me)}
          /\ proc' = [proc EXCEPT ![p] = Goto(Did(me, "restart", TRUE), "start.sleep")]
       \/ /\ me.launch
          /\ running' \in {running, running \ {UnitOf(me)}}
          /\ proc' = [proc EXCEPT ![p] =
                 Exit(Did(me, "restart", FALSE), 1, "Failed to start service")]
    /\ UNCHANGED <<files, targetDir, loaded, enabled, last, invocations>>

\* time.sleep(WAIT_FOR_STARTUP): the started process may die meanwhile.
StartSleep(p) ==
    LET me == proc[p] IN
    /\ me.pc = "start.sleep"
    /\ running' \in {running, running \ {UnitOf(me)}}
    /\ proc' = [proc EXCEPT ![p] = Goto(Did(me, "sleep", TRUE), "start.status")]
    /\ UNCHANGED <<files, targetDir, loaded, enabled, last, invocations>>

\* subprocess.run('systemctl -q status ...'): 0 only for an active unit; a
\* unit that is still activating has a process and a non-zero status.
StartStatus(p) ==
    LET me == proc[p] IN
    /\ me.pc = "start.status"
    /\ \/ /\ UnitOf(me) \in running
          /\ proc' = [proc EXCEPT ![p] = Exit(Did(me, "status", TRUE), 0, None)]
       \/ proc' = [proc EXCEPT ![p] = Goto(Did(me, "status", FALSE), "start.cleanup")]
    /\ ExternalUnchanged
    /\ UNCHANGED <<last, invocations>>

\* StartCleanup that also disables the unit it stops.
StartCleanupDisabling(p) ==
    LET me == proc[p] IN
    /\ me.pc = "start.cleanup"
    /\ \E ok \in BOOLEAN :
          /\ running' = IF ok THEN running \ {UnitOf(me)} ELSE running
          /\ enabled' = enabled \ {UnitOf(me)}
          /\ proc' = [proc EXCEPT ![p] =
                 Exit(Did(Did(me, "stop", ok), "disable", TRUE), 1,
                      "Failed to get service status")]
    /\ UNCHANGED <<files, targetDir, loaded, last, invocations>>

\* subprocess.run('systemctl stop ...') whose result is not looked at.
StartCleanup(p) ==
    LET me == proc[p] IN
    /\ me.pc = "start.cleanup"
    /\ \E ok \in BOOLEAN :
          /\ running' = IF ok THEN running \ {UnitOf(me)} ELSE running
          /\ proc' = [proc EXCEPT ![p] =
                 Exit(Did(me, "stop", ok), 1, "Failed to get service status")]
    /\ UNCHANGED <<files, targetDir, loaded, enabled, last, invocations>>

\* StopStop without the check of job.returncode at line 118.
StopStopUnchecked(p) ==
    LET me == proc[p] IN
    /\ me.pc = "stop.stop"
    /\ \/ /\ ~me.launch
          /\ proc' = [proc EXCEPT ![p] = Crash(me, "FileNotFoundError")]
          /\ UNCHANGED running
       \/ /\ me.launch
          /\ running' = running \ {UnitOf(me)}
          /\ proc' = [proc EXCEPT ![p] = Exit(Did(me, "stop", TRUE), 0, None)]
       \/ /\ me.launch
          /\ proc' = [proc EXCEPT ![p] = Exit(Did(me, "stop", FALSE), 0, None)]
          /\ UNCHANGED running
    /\ UNCHANGED <<files, targetDir, loaded, enabled, last, invocations>>

\* systemd_stop
StopStop(p) ==
    LET me == proc[p] IN
    /\ me.pc = "stop.stop"
    /\ \/ /\ ~me.launch
          /\ proc' = [proc EXCEPT ![p] = Crash(me, "FileNotFoundError")]
          /\ UNCHANGED running
       \/ /\ me.launch
          /\ running' = running \ {UnitOf(me)}
          /\ proc' = [proc EXCEPT ![p] = Exit(Did(me, "stop", TRUE), 0, None)]
       \/ /\ me.launch
          /\ proc' = [proc EXCEPT ![p] =
                 Exit(Did(me, "stop", FALSE), 1, "Failed to stop service")]
          /\ UNCHANGED running
    /\ UNCHANGED <<files, targetDir, loaded, enabled, last, invocations>>

(***************************************************************************)
(* install                                                                 *)
(***************************************************************************)
\* settings, error = load_settings(service, config) and the check of error
\* that follows it in install, run and do (lines 146-149, 238-241, 266-269),
\* for the descriptor the service's file holds.
Loaded(me, descriptor) ==
    LET r == load_settings(me.service, me.config, descriptor)
        read == [me EXCEPT !.descriptor = descriptor]
    IN  IF r.t = "raise" THEN Crash(read, r.error)
        ELSE IF r.error # None THEN Exit(read, 1, r.error)
        ELSE [read EXCEPT !.settings = r.settings]

InstallLoad(p) ==
    LET me == proc[p] IN
    /\ me.pc = "install.load"
    /\ \E descriptor \in Descriptors :
          LET got == Loaded(me, descriptor)
          IN  proc' = [proc EXCEPT ![p] =
                  IF got.pc = "done" THEN got ELSE Goto(got, "install.render")]
    /\ ExternalUnchanged
    /\ UNCHANGED <<last, invocations>>

\* os.path.join(os.path.dirname(settings['PYTHON_CMD']), name)
BesideInterpreter(name) == Str(<<PYTHON_DIR, "/", name>>)

\* Lines 151-152 and 161: the keys the service kind adds to the settings.
KindSettings(service, settings) ==
    IF service \in {"webapp"}
    THEN Update(settings,
             Dict({<<"GUNICORN_CMD", BesideInterpreter("gunicorn")>>,
                   <<"GUNICORN_CONFIG_PATH",
                     Str(<<HERE, "/", "services", "/", "gunicorn_config.py">>)>>}))
    ELSE Update(settings, Dict({<<"CELERY_CMD", BesideInterpreter("celery")>>}))

\* Lines 153 and 162: service_template_path
KindTemplate(service) ==
    IF service \in {"webapp"} THEN GUNICORN_TEMPLATE ELSE CELERY_TEMPLATE

\* InstallRender with the static assets staged before the unit is rendered:
\* a rendering error then comes after the target directory was emptied.
InstallRenderAfterStaging(p) ==
    LET me == proc[p] IN
    /\ me.pc = "install.render"
    /\ IF me.service \in {"webapp", "taskplanner", "taskworker"}
       THEN \E template \in TemplateFiles(KindTemplate(me.service)) :
               LET settings == KindSettings(me.service, me.settings.v)
                   service_def == render_template(template, settings)
                   staged == Did(Did(me, "rmtree", TRUE), "makedirs", TRUE)
                   next == [me EXCEPT !.settings = Map(settings),
                                      !.service_def = service_def]
               IN  IF me.service \notin {"webapp"}
                   THEN /\ proc' = [proc EXCEPT ![p] =
                               IF IsRaise(service_def) THEN Crash(me, service_def.v)
                               ELSE Goto(next, "install.write")]
                        /\ UNCHANGED targetDir
                   ELSE IF "targetroot" \notin DOMAIN settings
                   THEN /\ proc' = [proc EXCEPT ![p] = Crash(me, "KeyError")]
                        /\ UNCHANGED targetDir
                   ELSE IF IsRaise(service_def)
                   THEN /\ proc' = [proc EXCEPT ![p] = Crash(staged, service_def.v)]
                        /\ targetDir' = "empty"
                   ELSE /\ proc' = [proc EXCEPT ![p] = Goto(next, "install.copy.clean")]
                        /\ UNCHANGED targetDir
       ELSE /\ proc' = [proc EXCEPT ![p] = Exit(me, 1, "Unsupported service")]
            /\ UNCHANGED targetDir
    /\ UNCHANGED <<files, loaded, enabled, running, last, invocations>>

\* Lines 150-166: the dispatch on the service kind, the rendering of the
\* unit and, for webapp, the lookup of settings['targetroot'].
InstallRender(p) ==
    LET me == proc[p] IN
    /\ me.pc = "install.render"
    /\ IF me.service \in {"webapp", "taskplanner", "taskworker"}
       THEN \E template \in TemplateFiles(KindTemplate(me.service)) :
               LET settings == KindSettings(me.service, me.settings.v)
                   service_def == render_template(template, settings)
                   next == [me EXCEPT !.settings = Map(settings),
                                      !.service_def = service_def]
               IN  proc' = [proc EXCEPT ![p] =
                       IF IsRaise(service_def) THEN Crash(me, service_def.v)
                       ELSE IF me.service \notin {"webapp"} THEN Goto(next, "install.write")
                       ELSE IF "targetroot" \notin DOMAIN settings
                            THEN Crash(next, "KeyError")
                       ELSE Goto(next, "install.copy.clean")]
       ELSE proc' = [proc EXCEPT ![p] = Exit(me, 1, "Unsupported service")]
    /\ ExternalUnchanged
    /\ UNCHANGED <<last, invocations>>

\* What shutil.rmtree(dstdir, ignore_errors=True) may leave of a directory:
\* nothing, or, giving up silently, the directory emptied, a part of its
\* content, or all of it.
Remains(dir) ==
    CASE dir = "absent" -> {"absent"}
      [] dir = "empty" -> {"empty", "absent"}
      [] OTHER -> {dir, "partial", "empty", "absent"}

\* copy_files, lines 124-125: shutil.rmtree(dstdir, ignore_errors=True) and
\* os.makedirs(dstdir), which raises an OSError (FileExistsError when the
\* directory is still there) when the directory cannot be made.
InstallCopyClean(p) ==
    LET me == proc[p] IN
    /\ me.pc = "install.copy.clean"
    /\ \/ /\ targetDir' = "empty"
          /\ proc' = [proc EXCEPT ![p] =
                 Goto(Did(Did(me, "rmtree", TRUE), "makedirs", TRUE), "install.copy.rsync")]
       \/ /\ targetDir' \in Remains(targetDir)
          /\ proc' = [proc EXCEPT ![p] = Crash(Did(Did(me, "rmtree", TRUE), "makedirs", FALSE), "OSError")]
    /\ UNCHANGED <<files, loaded, enabled, running, last, invocations>>

\* InstallCopySync without the check of error at lines 157-159: install goes
\* on to the unit file after a failed rsync.
InstallCopySyncUnchecked(p) ==
    LET me == proc[p] IN
    /\ me.pc = "install.copy.rsync"
    /\ \/ /\ proc' = [proc EXCEPT ![p] = Exit(me, 1, "Source directory not exists")]
          /\ UNCHANGED targetDir
       \/ /\ proc' = [proc EXCEPT ![p] = Crash(me, "FileNotFoundError")]
          /\ UNCHANGED targetDir
       \/ /\ targetDir' \in {"empty", "partial"}
          /\ proc' = [proc EXCEPT ![p] = Goto(Did(me, "rsync", FALSE), "install.write")]
       \/ /\ targetDir' = "synced"
          /\ proc' = [proc EXCEPT ![p] = Goto(Did(me, "rsync", TRUE), "install.write")]
    /\ UNCHANGED <<files, loaded, enabled, running, last, invocations>>

\* copy_files, lines 126-131, and lines 157-159 of install.
InstallCopySync(p) ==
    LET me == proc[p] IN
    /\ me.pc = "install.copy.rsync"
    /\ \/ /\ proc' = [proc EXCEPT ![p] = Exit(me, 1, "Source directory not exists")]
          /\ UNCHANGED targetDir
       \/ /\ proc' = [proc EXCEPT ![p] = Crash(me, "FileNotFoundError")]
          /\ UNCHANGED targetDir
       \/ /\ targetDir' \in {"empty", "partial"}
          /\ proc' = [proc EXCEPT ![p] = Exit(Did(me, "rsync", FALSE), 1, "Failed to copy files")]
       \/ /\ targetDir' = "synced"
          /\ proc' = [proc EXCEPT ![p] = Goto(Did(me, "rsync", TRUE), "install.write")]
    /\ UNCHANGED <<files, loaded, enabled, running, last, invocations>>

\* systemd_install, line 77: io.open(systemd_path, 'w') creates the unit
\* file or empties the one that is there.
InstallWrite(p) ==
    LET me == proc[p] IN
    /\ me.pc = "install.write"
    /\ \/ /\ files' = [files EXCEPT ![UnitOf(me)] = Emptied]
          /\ proc' = [proc EXCEPT ![p] = Goto(me, "install.copy")]
       \/ /\ UNCHANGED files
          /\ proc' = [proc EXCEPT ![p] = Exit(Did(me, "write", FALSE), 1, "Failed to install")]
    /\ UNCHANGED <<targetDir, loaded, enabled, running, last, invocations>>

\* systemd_install, line 78: the rendered text is copied into the open file
\* and the file closed.  A file removed since it was opened takes the text
\* with it; a write that breaks off leaves a part of the text.
InstallCopy(p) ==
    LET me == proc[p]
        u == UnitOf(me)
    IN
    /\ me.pc = "install.copy"
    /\ \/ /\ IF me.detached THEN UNCHANGED files
             ELSE \E content \in Written(me.service_def.v, files[u]) :
                      files' = [files EXCEPT ![u] = content]
          /\ proc' = [proc EXCEPT ![p] = Goto(Did(me, "write", TRUE), "install.reload")]
       \/ /\ IF me.detached THEN UNCHANGED files
             ELSE files' \in {files, [files EXCEPT ![u] = Truncated]}
          /\ proc' = [proc EXCEPT ![p] = Exit(Did(me, "write", FALSE), 1, "Failed to install")]
    /\ UNCHANGED <<targetDir, loaded, enabled, running, last, invocations>>

\* InstallReload run without check=True: a failed daemon-reload is followed
\* by the enable command.
InstallReloadContinuing(p) ==
    LET me == proc[p] IN
    /\ me.pc = "install.reload"
    /\ \/ /\ ~me.launch
          /\ proc' = [proc EXCEPT ![p] = Exit(me, 1, "Failed to install")]
          /\ UNCHANGED loaded
       \/ /\ me.launch
          /\ loaded' = {u \in UnitNames : Exists(u)}
          /\ proc' = [proc EXCEPT ![p] = Goto(Did(me, "daemon-reload", TRUE), "install.enable")]
       \/ /\ me.launch
          /\ proc' = [proc EXCEPT ![p] =
                 Goto(Did(me, "daemon-reload", FALSE), "install.enable")]
          /\ UNCHANGED loaded
    /\ UNCHANGED <<files, targetDir, enabled, running, last, invocations>>

\* systemd_install, line 79: systemctl daemon-reload makes the supervisor
\* read the unit files again.
InstallReload(p) ==
    LET me == proc[p] IN
    /\ me.pc = "install.reload"
    /\ \/ /\ ~me.launch
          /\ proc' = [proc EXCEPT ![p] = Exit(me, 1, "Failed to install")]
          /\ UNCHANGED loaded
       \/ /\ me.launch
          /\ loaded' = {u \in UnitNames : Exists(u)}
          /\ proc' = [proc EXCEPT ![p] = Goto(Did(me, "daemon-reload", TRUE), "install.enable")]
       \/ /\ me.launch
          /\ proc' = [proc EXCEPT ![p] =
                 Exit(Did(me, "daemon-reload", FALSE), 1, "Failed to install")]
          /\ UNCHANGED loaded
    /\ UNCHANGED <<files, targetDir, enabled, running, last, invocations>>

\* InstallEnable run without check=True: install reports success whatever
\* the enable command returned.
InstallEnableUnchecked(p) ==
    LET me == proc[p] IN
    /\ me.pc = "install.enable"
    /\ \/ /\ Exists(UnitOf(me))
          /\ enabled' = enabled \cup {UnitOf(me)}
          /\ proc' = [proc EXCEPT ![p] = Exit(Did(me, "enable", TRUE), 0, None)]
       \/ /\ proc' = [proc EXCEPT ![p] = Exit(Did(me, "enable", FALSE), 0, None)]
          /\ UNCHANGED enabled
    /\ UNCHANGED <<files, targetDir, loaded, running, last, invocations>>

\* systemd_install, line 80: systemctl enable needs the unit file.
InstallEnable(p) ==
    LET me == proc[p] IN
    /\ me.pc = "install.enable"
    /\ \/ /\ Exists(UnitOf(me))
          /\ enabled' = enabled \cup {UnitOf(me)}
          /\ proc' = [proc EXCEPT ![p] = Exit(Did(me, "enable", TRUE), 0, None)]
       \/ /\ proc' = [proc EXCEPT ![p] = Exit(Did(me, "enable", FALSE), 1, "Failed to install")]
          /\ UNCHANGED enabled
    /\ UNCHANGED <<files, targetDir, loaded, running, last, invocations>>

(***************************************************************************)
(* run and do                                                              *)
(***************************************************************************)
\* Lines 248-251 and 281-284: the command is fixed up and the environment
\* of the child built; either may raise.
Prepare(me, command_args, bindir) ==
    LET command == guess_and_fix_command(command_args, bindir)
        job_env == JobEnv(me.settings.v)
    IN  IF IsRaise(command) THEN Crash(me, command.v)
        ELSE IF IsRaise(job_env) THEN Crash(me, job_env.v)
        ELSE [me EXCEPT !.pc = "exec", !.argv = Split(command.v)]

\* run, lines 238-251.
RunCommand(me, bindir) ==
    LET run_command_args == Get(me.settings, "run", Null)
    IN  IF ~Truthy(run_command_args)
        THEN Exit(me, 1, "Settings do not have run command specified")
        ELSE IF run_command_args.t # "str" THEN Crash(me, "AttributeError")
        ELSE LET ready == Prepare(me, run_command_args.v, bindir)
             IN  IF ready.pc = "done" THEN ready ELSE Goto(ready, "run.exec")

RunLoad(p) ==
    LET me == proc[p] IN
    /\ me.pc = "run.load"
    /\ \E descriptor \in Descriptors, bindir \in BinDirs :
          LET got == Loaded(me, descriptor)
          IN  proc' = [proc EXCEPT ![p] =
                  IF got.pc = "done" THEN got ELSE RunCommand(got, bindir)]
    /\ ExternalUnchanged
    /\ UNCHANGED <<last, invocations>>

\* Lines 253-255 and 286-288: the end of run and do once the child exited.
ExitAfterChild(ran, returncode, message) ==
    IF returncode # 0 THEN Exit(ran, 1, message) ELSE Exit(ran, 0, None)

\* subprocess.run(run_command.split(), env=job_env), line 252.
RunExec(p) ==
    LET me == proc[p] IN
    /\ me.pc = "run.exec"
    /\ \/ proc' = [proc EXCEPT ![p] = Crash(me, "FileNotFoundError")]
       \/ \E returncode \in ExitCodes :
             proc' = [proc EXCEPT ![p] =
                 ExitAfterChild([Did(me, "exec", returncode = 0) EXCEPT !.rc = returncode],
                                returncode, "Service stopped with return code")]
    /\ ExternalUnchanged
    /\ UNCHANGED <<last, invocations>>

\* DoCommand without the check of lines 276-278: the command line is built
\* from whatever the lookup gave.
DoCommandUnchecked(me, bindir) ==
    IF "actions" \notin DOMAIN me.settings.v
    THEN Exit(me, 1, "No actions found for service")
    ELSE IF me.settings.v["actions"].t # "map" THEN Crash(me, "AttributeError")
    ELSE LET action_command_base_args == Get(me.settings.v["actions"], me.action, Null)
             ready == Prepare(me, TextOf(PyStr(action_command_base_args))
                                      \o <<" ">> \o Join(me.args), bindir)
         IN  IF ready.pc = "done" THEN ready ELSE Goto(ready, "do.exec")

\* do, lines 271-284.
DoCommand(me, bindir) ==
    IF "actions" \notin DOMAIN me.settings.v
    THEN Exit(me, 1, "No actions found for service")
    ELSE IF me.settings.v["actions"].t # "map" THEN Crash(me, "AttributeError")
    ELSE LET action_command_base_args == Get(me.settings.v["actions"], me.action, Null)
         IN  IF ~Truthy(action_command_base_args)
             THEN Exit(me, 1, "Settings do not have action command specified")
             ELSE LET ready == Prepare(me, TextOf(action_command_base_args)
                                               \o <<" ">> \o Join(me.args), bindir)
                  IN  IF ready.pc = "done" THEN ready ELSE Goto(ready, "do.exec")

DoLoad(p) ==
    LET me == proc[p] IN
    /\ me.pc = "do.load"
    /\ \E descriptor \in Descriptors, bindir \in BinDirs :
          LET got == Loaded(me, descriptor)
          IN  proc' = [proc EXCEPT ![p] =
                  IF got.pc = "done" THEN got ELSE DoCommand(got, bindir)]
    /\ ExternalUnchanged
    /\ UNCHANGED <<last, invocations>>

\* subprocess.run(action_command.split(), env=job_env), line 285.
DoExec(p) ==
    LET me == proc[p] IN
    /\ me.pc = "do.exec"
    /\ \/ proc' = [proc EXCEPT ![p] = Crash(me, "FileNotFoundError")]
       \/ \E returncode \in ExitCodes :
             proc' = [proc EXCEPT ![p] =
                 ExitAfterChild([Did(me, "exec", returncode = 0) EXCEPT !.rc = returncode],
                                returncode, "Command stopped with return code")]
    /\ ExternalUnchanged
    /\ UNCHANGED <<last, invocations>>

(***************************************************************************)
(* Specification: one invocation at a time, as the single-threaded tool    *)
(* run by one operator.                                                    *)
(***************************************************************************)
Step(p) ==
    \/ Begin(p)
    \/ InstallLoad(p) \/ InstallRender(p) \/ InstallCopyClean(p) \/ InstallCopySync(p)
    \/ InstallWrite(p) \/ InstallCopy(p) \/ InstallReload(p) \/ InstallEnable(p)
    \/ UninstallExists(p) \/ UninstallStop(p) \/ UninstallDisable(p) \/ UninstallRemove(p)
    \/ StartRestart(p) \/ StartSleep(p) \/ StartStatus(p) \/ StartCleanup(p)
    \/ StopStop(p)
    \/ RunLoad(p) \/ RunExec(p)
    \/ DoLoad(p) \/ DoExec(p)
    \/ Finish(p)

Next == Step(1)

Spec == Init /\ [][Next]_vars

(***************************************************************************)
(* Specification of two operators who install and uninstall one unit with  *)
(* nothing that keeps their invocations apart: the steps of the two        *)
(* processes interleave.                                                   *)
(***************************************************************************)
LifecycleStep(p) ==
    \/ BeginLifecycle(p)
    \/ InstallLoad(p) \/ InstallRender(p)
    \/ InstallWrite(p) \/ InstallCopy(p) \/ InstallReload(p) \/ InstallEnable(p)
    \/ UninstallExists(p) \/ UninstallStop(p) \/ UninstallDisable(p) \/ UninstallRemove(p)
    \/ Finish(p)

NextConcurrent == \E p \in Procs : LifecycleStep(p)

SpecConcurrent == Init /\ [][NextConcurrent]_vars

(***************************************************************************)
(* Properties.                                                             *)
(***************************************************************************)
\* The calls of a trace, without their outcomes.
Calls(trace) == [i \in DOMAIN trace |-> trace[i].call]

\* A call to the supervisor.
SupervisorCalls == {"daemon-reload", "enable", "disable", "restart", "status", "stop"}

Finished(me, op) == me.pc = "done" /\ me.op = op

SameUnitAsLast(me) == last.service = me.service /\ last.config = me.config

\* C1: an uninstall that directly follows a successful uninstall of the same
\* unit reports success and makes no supervisor call.
C1_UninstallTwice ==
    \A p \in Procs :
        LET me == proc[p] IN
        (Finished(me, "uninstall") /\ last.op = "uninstall" /\ SameUnitAsLast(me))
            => (me.exit = 0 /\ \A i \in DOMAIN me.trace : me.trace[i].call \notin SupervisorCalls)

\* C2: a successful uninstall that directly follows a successful install of
\* the same unit from Absent leaves no unit file and the supervisor's
\* registry as it was before the install.
C2_InstallUninstallRoundTrip ==
    \A p \in Procs :
        LET me == proc[p] IN
        (Finished(me, "uninstall") /\ me.exit = 0 /\ last.op = "install"
            /\ last.absent /\ SameUnitAsLast(me))
            => (~Exists(UnitOf(me)) /\ Registry = last.registry)

\* C3: the exit code of run and do equals the exit code of the child.
C3_ChildExitCodePropagated ==
    \A p \in Procs :
        LET me == proc[p] IN
        (me.pc = "done" /\ me.op \in {"run", "do"} /\ me.rc # NotExited)
            => me.exit = me.rc

\* C4: once the restart command of start has reported failure, start has
\* ended with StartError and has made no other call: no delay, no status
\* probe, no stop.
C4_RestartFailureEndsStart ==
    \A p \in Procs :
        LET me == proc[p] IN
        (me.op = "start" /\ me.trace # <<>> /\ me.trace[1] = [call |-> "restart", ok |-> FALSE])
            => /\ me.pc = "done" /\ me.exit = 1
               /\ me.error = "Failed to start service"
               /\ Len(me.trace) = 1

C4_Witness ==
    \E p \in Procs :
        /\ Finished(proc[p], "start")
        /\ proc[p].trace = <<[call |-> "restart", ok |-> FALSE]>>
        /\ UnitOf(proc[p]) \in enabled

\* C5: a start whose restart succeeded and whose status probe reported
\* unhealthy ends with StartError after exactly one stop, issued after the
\* probe; it issues no disable and leaves the enabled set as it was.
C5_UnhealthyStartStopsOnly ==
    \A p \in Procs :
        LET me == proc[p] IN
        (Finished(me, "start")
            /\ \E i \in DOMAIN me.trace : me.trace[i] = [call |-> "status", ok |-> FALSE])
            => /\ Calls(me.trace) = <<"restart", "sleep", "status", "stop">>
               /\ me.trace[1].ok
               /\ me.exit = 1
               /\ me.error = "Failed to get service status"
               /\ enabled = me.pre.enabled

C5_Witness ==
    \E p \in Procs :
        /\ Finished(proc[p], "start")
        /\ \E i \in DOMAIN proc[p].trace : proc[p].trace[i] = [call |-> "status", ok |-> FALSE]
        /\ UnitOf(proc[p]) \in enabled

\* C6: after an uninstall that reports success the unit is Absent: no unit
\* file, not running, not enabled.
C6_UninstallSuccessMeansAbsent ==
    \A p \in Procs :
        LET me == proc[p] IN
        (Finished(me, "uninstall") /\ me.exit = 0) => Absent(External, UnitOf(me))

\* The invocation could not resolve its settings or render its unit.
ResolutionFailed(me) ==
    \/ me.descriptor # Unread /\ me.settings = Null
    \/ me.error = "UndefinedError"

\* C7: in install, run and do a settings-resolution or unit-rendering error
\* ends the invocation before any external call: the target directory, the
\* unit files and the registry are as the invocation found them and no
\* child was executed.
C7_ResolutionErrorsBeforeMutation ==
    \A p \in Procs :
        LET me == proc[p] IN
        (me.op \in {"install", "run", "do"} /\ ResolutionFailed(me))
            => /\ me.pc = "done" /\ me.exit = 1
               /\ me.trace = <<>>
               /\ External = me.pre

C7_Witness ==
    \E p \in Procs :
        /\ Finished(proc[p], "install")
        /\ proc[p].service = "webapp"
        /\ proc[p].error = "UndefinedError"
        /\ proc[p].descriptor = Document(CommonStatic, OnlyProd(EmptyMap), NoFile)
        /\ targetDir = "synced"

\* The descriptor has a configs mapping without the requested config.
LacksConfig(descriptor, config) ==
    /\ descriptor.t = "map"
    /\ "configs" \in DOMAIN descriptor.v
    /\ descriptor.v["configs"].t = "map"
    /\ config \notin DOMAIN descriptor.v["configs"].v

\* C8: resolving a config that is not a key of the descriptor's configs
\* returns the 'config not found' error value, returns no settings, does not
\* raise and changes no external state.
C8_ConfigNotFound ==
    \A p \in Procs :
        LET me == proc[p] IN
        (me.descriptor # Unread /\ LacksConfig(me.descriptor, me.config))
            => /\ me.pc = "done" /\ me.exit = 1
               /\ ~me.raised
               /\ me.error = "Config definition not found"
               /\ me.settings = Null
               /\ me.trace = <<>>
               /\ External = me.pre

C8_Witness ==
    \E p \in Procs :
        /\ proc[p].pc = "done"
        /\ proc[p].config = "dev"
        /\ LacksConfig(proc[p].descriptor, "dev")
        /\ "prod" \in DOMAIN proc[p].descriptor.v["configs"].v
        /\ proc[p].error = "Config definition not found"

\* The descriptor is empty, or its configs entry is missing, null or empty.
InvalidOrEmpty(descriptor) ==
    \/ descriptor \in {Null, EmptyMap}
    \/ /\ descriptor.t = "map"
       /\ \/ "configs" \notin DOMAIN descriptor.v
          \/ ~Truthy(descriptor.v["configs"])

\* C9: for an empty descriptor and for a configs entry that is missing, null
\* or empty, resolve returns the 'descriptor invalid or empty' failure and
\* does not raise.
C9_InvalidDescriptorReported ==
    \A p \in Procs :
        LET me == proc[p] IN
        (me.descriptor # Unread /\ InvalidOrEmpty(me.descriptor))
            => /\ me.pc = "done"
               /\ ~me.raised
               /\ me.error = "Service descriptor invalid or empty"

\* C10: settings that resolve returned bind SERVICE, CONFIG, HOME,
\* PYTHON_CMD and LOGGING_DIR to the requested service, the requested
\* config, the install root, the interpreter and the logging directory,
\* whatever the descriptor binds them to.
C10_InjectedKeysWin ==
    \A p \in Procs :
        LET me == proc[p] IN
        me.settings # Null
            => /\ me.settings.v["SERVICE"] = Str(<<me.service>>)
               /\ me.settings.v["CONFIG"] = Str(<<me.config>>)
               /\ me.settings.v["HOME"] = Str(<<HERE>>)
               /\ me.settings.v["PYTHON_CMD"] = Str(<<PYTHON_CMD>>)
               /\ me.settings.v["LOGGING_DIR"] = Str(<<LOGGING_DIR>>)

C10_Witness ==
    \E p \in Procs :
        /\ proc[p].settings # Null
        /\ proc[p].descriptor = Document(CommonFull, OnlyProd(SectionOverride), NoFile)
        /\ proc[p].descriptor.v["common"].v["SERVICE"] = Str(<<"evil">>)
        /\ proc[p].descriptor.v["configs"].v["prod"].v["HOME"] = Str(<<"evil">>)
        /\ proc[p].settings.v["SERVICE"] = Str(<<proc[p].service>>)
        /\ proc[p].settings.v["HOME"] = Str(<<HERE>>)

\* The env mapping of the settings before the prefix is applied.
MergedEnv(me) == MergeSettings(me.descriptor, me.service, me.config).v["env"].v

\* The descriptor sets env_prefix and the invocation resolved its settings.
Prefixed(me) ==
    /\ me.descriptor.t = "map"
    /\ "env_prefix" \in DOMAIN me.descriptor.v
    /\ Truthy(me.descriptor.v["env_prefix"])
    /\ me.settings # Null

\* C11: with env_prefix set, the resolved env has exactly one key
\* '<prefix>_<k>' for each key k of the merged env, bound to the value of k,
\* and as many keys as the merged env.
C11_EnvPrefixBijection ==
    \A p \in Procs :
        LET me == proc[p] IN
        Prefixed(me)
            => LET prefix == me.descriptor.v["env_prefix"].v
                   env == me.settings.v["env"].v
               IN  /\ Cardinality(DOMAIN env) = Cardinality(DOMAIN MergedEnv(me))
                   /\ \A k \in DOMAIN MergedEnv(me) :
                          /\ KeyText[PrefixedKey(prefix, k)] \in DOMAIN env
                          /\ env[KeyText[PrefixedKey(prefix, k)]] = MergedEnv(me)[k]

\* The resolved settings have no command for the action of a do: no actions
\* entry, or an actions mapping in which the action is missing or empty.
MissingAction(me) ==
    /\ me.op = "do" /\ me.settings # Null
    /\ \/ "actions" \notin DOMAIN me.settings.v
       \/ /\ me.settings.v["actions"].t = "map"
          /\ ~Truthy(Get(me.settings.v["actions"], me.action, Null))

\* The resolved settings have no command for a run.
MissingRun(me) ==
    /\ me.op = "run" /\ me.settings # Null
    /\ ~Truthy(Get(me.settings, "run", Null))

MissingCommandErrors ==
    {"No actions found for service", "Settings do not have action command specified",
     "Settings do not have run command specified"}

\* C12: a do whose action has no command in the resolved settings, and a run
\* whose settings have no run command, end with the missing-command error
\* and exit code 1 without raising, and execute no child process.
C12_MissingCommandNoChild ==
    \A p \in Procs :
        LET me == proc[p] IN
        (MissingAction(me) \/ MissingRun(me))
            => /\ me.pc = "done" /\ me.exit = 1 /\ ~me.raised
               /\ me.error \in MissingCommandErrors
               /\ me.trace = <<>> /\ me.rc = NotExited /\ me.argv = <<>>

C12_Witness ==
    \E p \in Procs :
        /\ Finished(proc[p], "do") /\ proc[p].action = "unknown"
        /\ MissingAction(proc[p])
        /\ "actions" \in DOMAIN proc[p].settings.v
        /\ proc[p].error = "Settings do not have action command specified"

\* The steps of systemd_install among the calls of a trace.
IsInstallStep(e) == e.call \in {"write", "daemon-reload", "enable"}
InstallSteps(trace) == SelectSeq(trace, IsInstallStep)

Done(call) == [call |-> call, ok |-> TRUE]
Failed(call) == [call |-> call, ok |-> FALSE]

Has(trace, e) == \E i \in DOMAIN trace : trace[i] = e

\* C13: the supervisor-facing steps of install are the write of the unit
\* file, the reload and the enable, in this order and each only after the
\* one before it succeeded; install reports success only after all three
\* succeeded, and a successful install that started from Absent leaves the
\* rendered unit file on disk and the unit enabled and not running, having
\* issued no start or restart.
C13_InstallOrder ==
    \A p \in Procs :
        LET me == proc[p]
            steps == InstallSteps(me.trace)
        IN  me.op = "install"
            => /\ Len(steps) <= 3
               /\ \A i \in DOMAIN steps :
                      /\ steps[i].call = <<"write", "daemon-reload", "enable">>[i]
                      /\ i < Len(steps) => steps[i].ok
               /\ (me.pc = "done" /\ me.exit = 0)
                      => /\ steps = <<Done("write"), Done("daemon-reload"), Done("enable")>>
                         /\ \A i \in DOMAIN me.trace :
                                me.trace[i].call \notin {"restart", "start"}
                         /\ Absent(me.pre, UnitOf(me))
                                => /\ files[UnitOf(me)] = me.service_def
                                   /\ UnitOf(me) \in enabled
                                   /\ UnitOf(me) \notin running

C13_Witness ==
    \E p \in Procs :
        /\ Finished(proc[p], "install") /\ proc[p].exit = 0
        /\ Absent(proc[p].pre, UnitOf(proc[p]))
        /\ Exists(UnitOf(proc[p]))
        /\ UnitOf(proc[p]) \in enabled \ running

\* The staging of the static assets began and did not succeed.
StagingFailed(me) ==
    /\ Finished(me, "install")
    /\ Has(me.trace, Done("rmtree"))
    /\ ~Has(me.trace, Done("rsync"))

\* C14: an install of webapp whose asset staging failed ends with an error
\* and has written no unit file and issued no reload and no enable: the
\* unit files and the registry are as the install found them.
C14_StagingFailureBeforeSupervisor ==
    \A p \in Procs :
        LET me == proc[p] IN
        StagingFailed(me)
            => /\ me.service = "webapp"
               /\ me.exit = 1
               /\ InstallSteps(me.trace) = <<>>
               /\ files = me.pre.files
               /\ Registry = [loaded |-> me.pre.loaded, enabled |-> me.pre.enabled,
                              running |-> me.pre.running]

C14_Witness ==
    \E p \in Procs :
        /\ StagingFailed(proc[p])
        /\ Has(proc[p].trace, Failed("rsync"))
        /\ targetDir = "partial"
        /\ proc[p].error = "Failed to copy files"

\* The unit file was written and install did not get through the reload and
\* the enable that follow.
FailedAfterWrite(me) ==
    /\ Finished(me, "install")
    /\ Has(me.trace, Done("write"))
    /\ ~Has(me.trace, Done("enable"))

\* What install does once the reload or the enable after the write failed:
\* it reports InstallError, the failed command is its last one and the
\* written unit file stays on disk.
NoRollback(me) ==
    /\ me.exit = 1 /\ me.error = "Failed to install"
    /\ InstallSteps(me.trace) \in {<<Done("write")>>,
                                   <<Done("write"), Failed("daemon-reload")>>,
                                   <<Done("write"), Done("daemon-reload"), Failed("enable")>>}
    /\ ~Has(me.trace, Done("remove")) /\ ~Has(me.trace, Done("disable"))
    /\ files[UnitOf(me)] = me.service_def

\* C16: an install that wrote the unit file and whose reload or enable then
\* failed reports InstallError, issues no further supervisor command and
\* compensates nothing: the written file stays on disk and, when the enable
\* was not reached, the unit is not enabled.
C16_PartialInstallNotEnabled ==
    \A p \in Procs :
        LET me == proc[p] IN
        FailedAfterWrite(me)
            => /\ NoRollback(me)
               /\ ~Has(me.trace, Failed("enable")) => UnitOf(me) \notin enabled

\* C16 as amended: the same, with the unit's enabled status what it was
\* before the install (not enabled when the install started from Absent).
C16_PartialInstallKeepsEnabledStatus ==
    \A p \in Procs :
        LET me == proc[p] IN
        FailedAfterWrite(me)
            => /\ NoRollback(me)
               /\ enabled = me.pre.enabled
               /\ Absent(me.pre, UnitOf(me)) => UnitOf(me) \notin enabled

C16_Witness ==
    \E p \in Procs :
        /\ FailedAfterWrite(proc[p])
        /\ Has(proc[p].trace, Failed("daemon-reload"))
        /\ Exists(UnitOf(proc[p]))
        /\ UnitOf(proc[p]) \in enabled

StartErrors == {"Failed to start service", "Failed to get service status"}

\* C15: after a start that reported StartError, on either failure path, the
\* unit is not running.
C15_StartErrorMeansStopped ==
    \A p \in Procs :
        LET me == proc[p] IN
        (Finished(me, "start") /\ me.error \in StartErrors)
            => UnitOf(me) \notin running

\* The descriptor sets env_prefix and the merged settings of the requested
\* config have no env entry.
PrefixWithoutEnv(me) ==
    /\ me.descriptor.t = "map"
    /\ "env_prefix" \in DOMAIN me.descriptor.v
    /\ Truthy(me.descriptor.v["env_prefix"])
    /\ "configs" \in DOMAIN me.descriptor.v
    /\ me.descriptor.v["configs"].t = "map"
    /\ me.config \in DOMAIN me.descriptor.v["configs"].v
    /\ LET merged == MergeSettings(me.descriptor, me.service, me.config)
       IN  ~IsRaise(merged) /\ "env" \notin DOMAIN merged.v

\* C19: with env_prefix set and no env in the merged settings, resolve
\* returns settings or an error value and does not raise.
C19_PrefixWithoutEnvReturns ==
    \A p \in Procs :
        LET me == proc[p] IN
        (me.op \in {"install", "run", "do"} /\ me.descriptor # Unread
            /\ PrefixWithoutEnv(me))
            => ~(me.raised /\ me.error = "KeyError" /\ me.settings = Null)

\* C20: start and stop leave the unit files, the unit index and the enabled
\* set as they found them and issue no enable, disable or reload, however
\* they end; the only call of stop is one stop command, and stop reports
\* StopError exactly when that command returned non-zero.
C20_StartStopFrame ==
    \A p \in Procs :
        LET me == proc[p] IN
        me.op \in {"start", "stop"}
            => /\ files = me.pre.files
               /\ enabled = me.pre.enabled
               /\ loaded = me.pre.loaded
               /\ \A i \in DOMAIN me.trace :
                      me.trace[i].call \notin {"write", "remove", "enable", "disable",
                                               "daemon-reload"}
               /\ Finished(me, "stop")
                      => /\ Calls(me.trace) \in {<<>>, <<"stop">>}
                         /\ me.trace = <<>> <=> me.raised
                         /\ me.error = "Failed to stop service" <=> me.trace = <<Failed("stop")>>
                         /\ me.exit = 0 <=> me.trace = <<Done("stop")>>

C20_Witness ==
    \E p \in Procs :
        /\ Finished(proc[p], "stop")
        /\ proc[p].trace = <<Failed("stop")>>
        /\ proc[p].error = "Failed to stop service"
        /\ UnitOf(proc[p]) \in enabled \cap running
        /\ Exists(UnitOf(proc[p]))

\* The unit is enabled in the supervisor while its unit file is absent.
Orphan(ext, u) == u \in ext.enabled /\ ext.files[u] = NoText

AllOk(trace) == \A i \in DOMAIN trace : trace[i].ok

\* Both processes have ended, one an install and the other an uninstall of
\* the same unit, every step of both having succeeded, and neither found the
\* unit enabled without a file.
PairEnded(i, u) ==
    /\ Finished(proc[i], "install") /\ Finished(proc[u], "uninstall")
    /\ UnitOf(proc[i]) = UnitOf(proc[u])
    /\ proc[i].exit = 0 /\ proc[u].exit = 0
    /\ AllOk(proc[i].trace) /\ AllOk(proc[u].trace)
    /\ ~Orphan(proc[i].pre, UnitOf(proc[i])) /\ ~Orphan(proc[u].pre, UnitOf(proc[u]))

\* C17: an install and an uninstall of one unit that ran one after the
\* other, in either order, never end with the unit enabled and its file
\* absent; the witness is the interleaving of the two that does.
C17_SerializedPairNeverOrphans ==
    \A i, u \in Procs :
        (PairEnded(i, u) /\ proc[i].alone /\ proc[u].alone)
            => ~Orphan(External, UnitOf(proc[i]))

C17_Witness ==
    \E i, u \in Procs :
        /\ PairEnded(i, u)
        /\ ~(proc[i].alone /\ proc[u].alone)
        /\ InstallSteps(proc[i].trace) = <<Done("write"), Done("daemon-reload"), Done("enable")>>
        /\ proc[u].trace = <<Done("stop"), Done("disable"), Done("remove")>>
        /\ Orphan(External, UnitOf(proc[i]))

\* C18: with one invocation at a time, a unit that is enabled or running has
\* its unit file on disk.
C18_ActiveUnitHasFile ==
    \A u \in UnitNames : (u \in enabled \cup running) => Exists(u)

====
